---- MODULE Spec2Model ----
(***************************************************************************)
(* Model of the tree transformations of markdown-transform:                *)
(*   - CommonMarkTransformer.fromMarkdown: the sax handlers that rebuild a  *)
(*     nested CommonMark DOM from open/text/close events on a Stack;        *)
(*   - slateToCiceroMarkDom / _recursive / handleText: the mapping of a     *)
(*     Slate document to the CiceroMark DOM.                                *)
(* Strings that the code inspects character by character (tag names, text  *)
(* payloads) are sequences of one-character strings.  JS objects are        *)
(* records whose DOMAIN is the set of properties that are present.          *)
(***************************************************************************)
EXTENDS Integers, Sequences, FiniteSets, TLC

VARIABLES
    \* ---- CommonMarkTransformer.fromMarkdown --------------------------------
    options,   \* this.options of the transformer
    stack,     \* the Stack of the call: sequence of object references
    heap,      \* the objects the handlers created; a reference is an index
    tags,      \* the sax parser's own stack of open elements
    enclosing, \* for each open event, the element that was open around it
    nevents,   \* number of events the parser has delivered
    json,      \* the value fromMarkdown returns
    pc,        \* "streaming" | "done" | "idle"
    \* ---- handleText --------------------------------------------------------
    tnode,     \* the Slate text node handed to handleText
    tout,      \* what handleText returned
    tpc,       \* "start" | "done" | "idle"
    \* ---- slateToCiceroMarkDom / _recursive ---------------------------------
    mparent,   \* the parent CiceroMark node of the _recursive call
    mnodes,    \* the array of Slate nodes of the call
    mout,      \* the parent after the call, or the error thrown
    mpc,       \* "start" | "done" | "idle"
    \* ---- CommonMarkTransformer.toClass ------------------------------------
    cname,     \* the tag name handed to toClass
    cout,      \* what toClass returned
    cpc,       \* "start" | "done" | "idle"
    \* ---- several fromMarkdown calls on one transformer --------------------
    script,    \* the event streams of the calls to come, one per call
    callno,    \* the number of the call in progress
    cursor,    \* number of events of the current stream already delivered
    returned   \* for each call that ended: the reference and the tree returned

bvars == <<options, stack, heap, tags, enclosing, nevents, json, pc>>
tvars == <<tnode, tout, tpc>>
mvars == <<mparent, mnodes, mout, mpc>>
cvars == <<cname, cout, cpc>>
kvars == <<script, callno, cursor, returned>>
vars == <<bvars, tvars, mvars, cvars, kvars>>

\* ---------------------------------------------------------------- bounds
MaxEvents == 4
MaxDepth == 3
MaxMarks == 3
MaxChildren == 2
MaxNameLen == 4
MaxCalls == 3

\* ------------------------------------------------------------- characters
LowerCase == <<"a","b","c","d","e","f","g","h","i","j","k","l","m",
               "n","o","p","q","r","s","t","u","v","w","x","y","z">>
UpperCase == <<"A","B","C","D","E","F","G","H","I","J","K","L","M",
               "N","O","P","Q","R","S","T","U","V","W","X","Y","Z">>

isLowerLetter(c) == \E i \in 1..Len(LowerCase) : LowerCase[i] = c

toUpperCase(c) ==
    IF isLowerLetter(c)
    THEN UpperCase[CHOOSE i \in 1..Len(LowerCase) : LowerCase[i] = c]
    ELSE c

isWhitespace(c) == c \in {" ", "\n", "\t"}

RECURSIVE trimStart(_)
trimStart(s) ==
    IF s # <<>> /\ isWhitespace(Head(s)) THEN trimStart(Tail(s)) ELSE s

RECURSIVE trimEnd(_)
trimEnd(s) ==
    IF s # <<>> /\ isWhitespace(s[Len(s)])
    THEN trimEnd(SubSeq(s, 1, Len(s) - 1))
    ELSE s

\* String.prototype.trim
trim(s) == trimEnd(trimStart(s))

\* String.prototype.endsWith
endsWith(s, suffix) ==
    /\ Len(s) >= Len(suffix)
    /\ SubSeq(s, Len(s) - Len(suffix) + 1, Len(s)) = suffix

\* ------------------------------------------------------------- toClass
\* The namespace prefix is one opaque element: it holds no underscore.
COMMON_NS_PREFIX == <<"org.accordproject.commonmark.">>

\* name.replace(/_([a-z])/g, g => g[1].toUpperCase()): left to right, without
\* overlap; an underscore not followed by a lower-case letter is kept.
RECURSIVE camelCase(_)
camelCase(s) ==
    IF s = <<>> THEN <<>>
    ELSE IF Head(s) = "_" /\ Len(s) >= 2 /\ isLowerLetter(s[2])
         THEN <<toUpperCase(s[2])>> \o camelCase(SubSeq(s, 3, Len(s)))
         ELSE <<Head(s)>> \o camelCase(Tail(s))

\* the first letter is left as it is
capitalizeFirstLetter_asIs(string) == string

capitalizeFirstLetter(string) ==
    IF string = <<>> THEN <<>>
    ELSE <<toUpperCase(Head(string))>> \o Tail(string)

toClass(name) == COMMON_NS_PREFIX \o capitalizeFirstLetter(camelCase(name))

\* ------------------------------------------------ node kinds of the builder
ClassText == COMMON_NS_PREFIX \o <<"T","e","x","t">>
ClassCodeBlock == COMMON_NS_PREFIX \o <<"C","o","d","e","B","l","o","c","k">>
ClassHtmlInline == COMMON_NS_PREFIX \o <<"H","t","m","l","I","n","l","i","n","e">>
ClassHtmlBlock == COMMON_NS_PREFIX \o <<"H","t","m","l","B","l","o","c","k">>
ClassCode == COMMON_NS_PREFIX \o <<"C","o","d","e">>
ClassDocument == COMMON_NS_PREFIX \o <<"D","o","c","u","m","e","n","t">>

\* a leaf test that forgets the code block
isLeafNode_noCodeBlock(n) ==
    \/ n.class = ClassText
    \/ n.class = ClassHtmlInline
    \/ n.class = ClassHtmlBlock
    \/ n.class = ClassCode

\* a leaf test that takes every node for a leaf
isLeafNode_all(n) == "class" \in DOMAIN n

isLeafNode(n) ==
    \/ n.class = ClassText
    \/ n.class = ClassCodeBlock
    \/ n.class = ClassHtmlInline
    \/ n.class = ClassHtmlBlock
    \/ n.class = ClassCode

isHtmlNode(n) ==
    \/ n.class = ClassHtmlInline
    \/ n.class = ClassHtmlBlock

isCodeBlockNode(n) == n.class = ClassCodeBlock

\* ------------------------------------------------------------------ Stack
\* A reference is an index into heap; NoRef is what peek gives on an empty
\* stack (a falsy value).
NoRef == 0

peek(s) == IF Len(s) > 0 THEN s[Len(s)] ELSE NoRef

\* Stack.push(obj, appendChild): with appendChild the object also becomes the
\* last child of the current top.
pushLinked(h, s, ref) ==
    [h EXCEPT ![peek(s)] = [nodes |-> Append(@.nodes, ref)] @@ @]

pop(s) == SubSeq(s, 1, Len(s) - 1)

\* --------------------------------------------------------- parseHtmlBlock
LowerOf(c) ==
    IF \E i \in 1..Len(UpperCase) : UpperCase[i] = c
    THEN LowerCase[CHOOSE i \in 1..Len(UpperCase) : UpperCase[i] = c]
    ELSE c

toLowerCase(s) == [i \in 1..Len(s) |-> LowerOf(s[i])]

\* What (new DOMParser()).parseFromString(string, 'text/html').childNodes[0]
\* can be: no element at all (reading its attributes then throws), or an
\* element.  The parser is a library: its outcome is a choice.
NoItem == [found |-> FALSE]

DomItems ==
    { NoItem,
      [found |-> TRUE, tagName |-> <<"B">>, textContent |-> <<>>,
       attributes |-> << [name |-> "id", value |-> "x"],
                         [name |-> "id", value |-> "y"] >>] }

\* the loop of parseHtmlBlock over item.attributes
RECURSIVE attributeStringOf(_)
attributeStringOf(attributes) ==
    IF attributes = <<>> THEN <<>>
    ELSE <<Head(attributes).name, " = \"", Head(attributes).value, "\" ">>
         \o attributeStringOf(Tail(attributes))

\* attributeObject[name] = value: the last value of a name wins
attributeObjectOf(attributes) ==
    [nm \in {attributes[i].name : i \in 1..Len(attributes)} |->
        attributes[CHOOSE i \in 1..Len(attributes) :
            /\ attributes[i].name = nm
            /\ \A j \in (i + 1)..Len(attributes) : attributes[j].name # nm].value]

\* the own property names of attributeObject, in insertion order
RECURSIVE keysInOrder(_)
keysInOrder(attributes) ==
    IF attributes = <<>> THEN <<>>
    ELSE LET front == SubSeq(attributes, 1, Len(attributes) - 1)
             last == attributes[Len(attributes)].name
         IN IF \E i \in 1..Len(front) : front[i].name = last
            THEN keysInOrder(front)
            ELSE Append(keysInOrder(front), last)

NoTagInfo == [isNull |-> TRUE]

\* defined: whether the argument is a string at all (head.info may be absent)
parseHtmlBlock(defined, string, item) ==
    IF ~defined \/ ~item.found
    THEN NoTagInfo
    ELSE [isNull |-> FALSE,
          tag |-> toLowerCase(item.tagName),
          attributes |-> attributeObjectOf(item.attributes),
          keys |-> keysInOrder(item.attributes),
          attributeString |-> attributeStringOf(item.attributes),
          content |-> item.textContent,
          closed |-> endsWith(string, <<"/", ">">>)]

\* ------------------------------------------------------------ the handlers
\* an option test that takes every option as set
optionSet_always(name) == name \in DOMAIN options

optionSet(name) == options.defined /\ options[name]

\* parser.ontext
ontext(t0, item) ==
    LET t == IF optionSet("trimText") THEN trim(t0) ELSE t0
        head == peek(stack)
    IN  /\ IF Len(t) > 0 /\ head # NoRef
           THEN LET n0 == heap[head]
                    n1 == IF isLeafNode(n0) THEN [text |-> t] @@ n0 ELSE n0
                    defined == IF isHtmlNode(n1) THEN "text" \in DOMAIN n1
                               ELSE "info" \in DOMAIN n1
                    maybeHtmlText == IF ~defined THEN <<>>
                                     ELSE IF isHtmlNode(n1) THEN n1.text
                                     ELSE n1.info
                    tagInfo == IF optionSet("tagInfo")
                               THEN parseHtmlBlock(defined, maybeHtmlText, item)
                               ELSE NoTagInfo
                    n2 == IF (isHtmlNode(n1) \/ isCodeBlockNode(n1)) /\ ~tagInfo.isNull
                          THEN [tag |->
                                  [class |-> COMMON_NS_PREFIX \o <<"T","a","g","I","n","f","o">>,
                                   tagName |-> tagInfo.tag,
                                   attributeString |-> tagInfo.attributeString,
                                   attributes |->
                                      [i \in 1..Len(tagInfo.keys) |->
                                         [class |-> COMMON_NS_PREFIX \o <<"A","t","t","r","i","b","u","t","e">>,
                                          name |-> tagInfo.keys[i],
                                          value |-> tagInfo.attributes[tagInfo.keys[i]]]],
                                   content |-> tagInfo.content,
                                   closed |-> tagInfo.closed]] @@ n1
                          ELSE n1
                IN heap' = [heap EXCEPT ![head] = n2]
           ELSE UNCHANGED heap
        /\ UNCHANGED stack

\* an open handler that leaves the attributes out
onopentag_noHoist(name, attributes, position) ==
    LET created == [class |-> toClass(name)]
        newNode == IF optionSet("enableSourceLocation")
                   THEN [line |-> position, column |-> position,
                         position |-> position, startTagPosition |-> position]
                        @@ created
                   ELSE created
        ref == Len(heap) + 1
        head == peek(stack)
    IN  IF head # NoRef
        THEN LET h1 == IF "nodes" \in DOMAIN heap[head]
                       THEN heap
                       ELSE [heap EXCEPT ![head] = [nodes |-> <<>>] @@ @]
             IN /\ heap' = Append(pushLinked(h1, stack, ref), newNode)
                /\ stack' = Append(stack, ref)
        ELSE /\ heap' = Append(heap, newNode)
             /\ stack' = Append(stack, ref)

\* parser.onopentag; position stands for parser.line, column, position and
\* startTagPosition, which all grow with the input consumed
onopentag(name, attributes, position) ==
    LET created == [class |-> toClass(name)]
        located == IF optionSet("enableSourceLocation")
                   THEN [line |-> position, column |-> position,
                         position |-> position, startTagPosition |-> position]
                        @@ created
                   ELSE created
        \* hoist the attributes: an attribute overwrites a same-named field
        newNode == attributes @@ located
        ref == Len(heap) + 1
        head == peek(stack)
    IN  IF head # NoRef
        THEN LET h1 == IF "nodes" \in DOMAIN heap[head]
                       THEN heap
                       ELSE [heap EXCEPT ![head] = [nodes |-> <<>>] @@ @]
             IN /\ heap' = Append(pushLinked(h1, stack, ref), newNode)
                /\ stack' = Append(stack, ref)
        ELSE /\ heap' = Append(heap, newNode)
             /\ stack' = Append(stack, ref)

TagDocument == <<"d","o","c","u","m","e","n","t">>

\* a close handler that also pops the document
onclosetag_popsDocument(name) ==
    /\ stack' = pop(stack)
    /\ UNCHANGED heap

\* a close handler that never pops
onclosetag_neverPops(name) ==
    /\ stack' = stack
    /\ UNCHANGED heap

\* parser.onclosetag
onclosetag(name) ==
    /\ stack' = IF name # TagDocument THEN pop(stack) ELSE stack
    /\ UNCHANGED heap

\* ------------------------------------------------------- the event source
\* commonmark.XmlRenderer writes one <document> root; sax (strict) delivers
\* its elements properly nested, and whitespace between the tags as text.
TagParagraph == <<"p","a","r","a","g","r","a","p","h">>
TagBlockQuote == <<"b","l","o","c","k","_","q","u","o","t","e">>
TagText == <<"t","e","x","t">>
TagCodeBlock == <<"c","o","d","e","_","b","l","o","c","k">>
TagHtmlInline == <<"h","t","m","l","_","i","n","l","i","n","e">>
TagLink == <<"l","i","n","k">>

ContainerTags == {TagDocument, TagParagraph, TagBlockQuote, TagLink}
ChildTags ==
    {TagParagraph, TagBlockQuote, TagText, TagCodeBlock, TagHtmlInline, TagLink}

NoAttributes == <<>>

AttributesOf(name) ==
    IF name = TagDocument THEN {[xmlns |-> "http://commonmark.org/xml/1.0"]}
    ELSE IF name = TagCodeBlock THEN {NoAttributes, [info |-> <<"<","b",">">>]}
    ELSE IF name = TagLink THEN {[destination |-> "http://a", title |-> ""]}
    ELSE {NoAttributes}

Whitespace == <<"\n", " ">>
Texts == {Whitespace, <<"a", " ">>, <<"<","b","/",">">>}

OptionSets ==
    {[defined |-> FALSE, trimText |-> FALSE, enableSourceLocation |-> FALSE,
      tagInfo |-> FALSE]}
    \cup
    {[defined |-> TRUE, trimText |-> a, enableSourceLocation |-> b, tagInfo |-> c] :
        a \in BOOLEAN, b \in BOOLEAN, c \in BOOLEAN}

sawRoot == Len(heap) > 0
closedRoot == sawRoot /\ tags = <<>>

TIdle == tnode = <<>> /\ tout = <<>> /\ tpc = "idle"
MIdle == mparent = <<>> /\ mnodes = <<>> /\ mout = <<>> /\ mpc = "idle"
CIdle == cname = <<>> /\ cout = <<>> /\ cpc = "idle"
KIdle == script = <<>> /\ callno = 0 /\ cursor = 0 /\ returned = <<>>

\* new Stack(); sax.parser(true, ...)
Init ==
    /\ options \in OptionSets
    /\ stack = <<>>
    /\ heap = <<>>
    /\ tags = <<>>
    /\ enclosing = <<>>
    /\ nevents = 0
    /\ json = NoRef
    /\ pc = "streaming"
    /\ TIdle
    /\ MIdle
    /\ CIdle
    /\ KIdle

\* the parser delivers the open tag <name attributes>
SaxOpenEvent(name, attributes) ==
    /\ pc = "streaming"
    /\ nevents < MaxEvents
    /\ Len(tags) < MaxDepth
    /\ ~closedRoot
    /\ IF sawRoot
       THEN name \in ChildTags /\ tags[Len(tags)].name \in ContainerTags
       ELSE name = TagDocument
    /\ attributes \in AttributesOf(name)
    /\ onopentag(name, attributes, nevents)
    /\ tags' = Append(tags, [name |-> name, ref |-> Len(heap) + 1])
    /\ enclosing' = Append(enclosing, IF tags = <<>> THEN NoRef ELSE tags[Len(tags)].ref)
    /\ nevents' = nevents + 1
    /\ UNCHANGED <<options, json, pc, tvars, mvars, cvars, kvars>>

SaxOpenTag ==
    \E name \in ChildTags \cup {TagDocument} :
        \E attributes \in AttributesOf(name) : SaxOpenEvent(name, attributes)

\* the parser delivers the text t; item is what the DOM parser would make of
\* the inspected string
SaxTextEvent(t, item) ==
    /\ pc = "streaming"
    /\ nevents < MaxEvents
    /\ tags = <<>> => t = Whitespace
    /\ ontext(t, item)
    /\ nevents' = nevents + 1
    /\ UNCHANGED <<options, tags, enclosing, json, pc, tvars, mvars, cvars, kvars>>

SaxText == \E t \in Texts, item \in DomItems : SaxTextEvent(t, item)

SaxCloseTag ==
    /\ pc = "streaming"
    /\ tags # <<>>
    /\ onclosetag(tags[Len(tags)].name)
    /\ tags' = SubSeq(tags, 1, Len(tags) - 1)
    /\ UNCHANGED <<options, enclosing, nevents, json, pc, tvars, mvars, cvars, kvars>>

\* parser.write(xml).close(); const json = stack.peek(); return json
Return ==
    /\ pc = "streaming"
    /\ closedRoot
    /\ json' = peek(stack)
    /\ pc' = "done"
    /\ UNCHANGED <<options, stack, heap, tags, enclosing, nevents, tvars, mvars, cvars, kvars>>

Next == SaxOpenTag \/ SaxText \/ SaxCloseTag \/ Return

Spec == Init /\ [][Next]_vars

\* ------------------------------------------------------------ the builder
\* the elements opened directly inside element r, in stream order
ChildrenOf(r) ==
    SelectSeq([i \in 1..Len(heap) |-> i], LAMBDA c : enclosing[c] = r)

\* C1 (stack balance): when a well-formed stream has ended, the stack holds
\* exactly one element, it is the node the first open event created, that
\* node is the document, and it is the value returned.
C1_StackBalance ==
    pc = "done" =>
        /\ Len(stack) = 1
        /\ stack[1] = 1
        /\ heap[1].class = ClassDocument
        /\ json = stack[1]

\* a finished stream that nested three elements deep
C1_Witness ==
    /\ pc = "done"
    /\ Len(stack) = 1
    /\ json = 1
    /\ \E a, b \in 1..Len(heap) : enclosing[a] = 1 /\ enclosing[b] = a

\* C2 (nesting fidelity): at every moment the children list of each node is
\* exactly the nodes of the elements opened directly inside its element, in
\* stream order (so a node just opened is the last child of the nearest
\* enclosing open element), a node with no element inside has no list, and
\* the tree returned is rooted at the document, the only node with no
\* enclosing element.
C2_NestingFidelity ==
    /\ \A r \in 1..Len(heap) :
          IF ChildrenOf(r) = <<>>
          THEN "nodes" \notin DOMAIN heap[r]
          ELSE "nodes" \in DOMAIN heap[r] /\ heap[r].nodes = ChildrenOf(r)
    /\ \A r \in 1..Len(heap) : enclosing[r] = NoRef <=> r = 1
    /\ pc = "done" => json = 1 /\ heap[json].class = ClassDocument

\* a returned tree whose root has two children, the first with a child of
\* its own
C2_Witness ==
    /\ pc = "done"
    /\ json = 1
    /\ "nodes" \in DOMAIN heap[1]
    /\ Len(heap[1].nodes) = 2
    /\ "nodes" \in DOMAIN heap[heap[1].nodes[1]]
    /\ enclosing[heap[heap[1].nodes[1]].nodes[1]] = heap[1].nodes[1]

\* ===================================================== slateToCiceroMarkDom
NS == "org.accordproject.commonmark"
NS_CICERO == "org.accordproject.ciceromark"

\* the template string `${ns}.${name}`
classOf(ns, name) == <<ns, ".", name>>

\* let result = null
Null == [isNull |-> TRUE]

\* node.marks.some(mark => mark.type === type)
someMark(node, type) == \E i \in 1..Len(node.marks) : node.marks[i].type = type

\* both marks: the strong wraps the emph
handleText_strongOutside(node) ==
    LET text == [class |-> classOf(NS, "Text"), text |-> node.text]
    IN  IF someMark(node, "code")
        THEN [class |-> classOf(NS, "Code"), text |-> node.text]
        ELSE IF someMark(node, "bold") /\ someMark(node, "italic")
        THEN [class |-> classOf(NS, "Strong"),
              nodes |-> << [class |-> classOf(NS, "Emph"), nodes |-> <<text>>] >>]
        ELSE IF someMark(node, "italic")
        THEN [class |-> classOf(NS, "Emph"), nodes |-> <<text>>]
        ELSE IF someMark(node, "bold")
        THEN [class |-> classOf(NS, "Strong"), nodes |-> <<text>>]
        ELSE text

\* the code mark is looked at last, after the wrappers were built
handleText_codeLast(node) ==
    LET code == [class |-> classOf(NS, "Code"), text |-> node.text]
    IN  IF someMark(node, "bold") /\ someMark(node, "italic")
        THEN [class |-> classOf(NS, "Emph"),
              nodes |-> << [class |-> classOf(NS, "Strong"), nodes |-> <<code>>] >>]
        ELSE IF someMark(node, "italic")
        THEN [class |-> classOf(NS, "Emph"), nodes |-> <<code>>]
        ELSE IF someMark(node, "bold")
        THEN [class |-> classOf(NS, "Strong"), nodes |-> <<code>>]
        ELSE IF someMark(node, "code") THEN code
        ELSE [class |-> classOf(NS, "Text"), text |-> node.text]

\* a lone bold mark builds the strong but the result stays the bare text
handleText_boldForgotten(node) ==
    LET text == [class |-> classOf(NS, "Text"), text |-> node.text]
    IN  IF someMark(node, "code")
        THEN [class |-> classOf(NS, "Code"), text |-> node.text]
        ELSE IF someMark(node, "bold") /\ someMark(node, "italic")
        THEN [class |-> classOf(NS, "Emph"),
              nodes |-> << [class |-> classOf(NS, "Strong"), nodes |-> <<text>>] >>]
        ELSE IF someMark(node, "italic")
        THEN [class |-> classOf(NS, "Emph"), nodes |-> <<text>>]
        ELSE text

handleText(node) ==
    LET isBold == someMark(node, "bold")
        isItalic == someMark(node, "italic")
        isCode == someMark(node, "code")
        text == [class |-> classOf(NS, "Text"), text |-> node.text]
        strong == [class |-> classOf(NS, "Strong"), nodes |-> <<>>]
        emph == [class |-> classOf(NS, "Emph"), nodes |-> <<>>]
    IN  IF isCode
        THEN [class |-> classOf(NS, "Code"), text |-> node.text]
        ELSE IF isBold /\ isItalic
        THEN \* result = emph; emph.nodes.push(strong); strong.nodes.push(text)
             [emph EXCEPT !.nodes =
                 Append(@, [strong EXCEPT !.nodes = Append(@, text)])]
        ELSE LET afterStrong == IF isBold
                                THEN [strong EXCEPT !.nodes = Append(@, text)]
                                ELSE Null
                 afterEmph == IF isItalic
                              THEN [emph EXCEPT !.nodes = Append(@, text)]
                              ELSE afterStrong
             IN  IF afterEmph = Null THEN text ELSE afterEmph

\* ------------------------------------------------------ handleText's inputs
MarkTypes == {"bold", "italic", "code", "underline"}
RawTexts == {"", "hi"}

MarkLists ==
    UNION {[1..n -> {[type |-> m] : m \in MarkTypes}] : n \in 0..MaxMarks}

TextNodes ==
    {[object |-> "text", text |-> t, marks |-> ms] : t \in RawTexts, ms \in MarkLists}

BIdle ==
    /\ options = <<>> /\ stack = <<>> /\ heap = <<>> /\ tags = <<>>
    /\ enclosing = <<>> /\ nevents = 0 /\ json = NoRef /\ pc = "idle"

TextInit ==
    /\ BIdle
    /\ MIdle
    /\ CIdle
    /\ KIdle
    /\ tnode \in TextNodes
    /\ tout = <<>>
    /\ tpc = "start"

HandleText ==
    /\ tpc = "start"
    /\ tout' = handleText(tnode)
    /\ tpc' = "done"
    /\ UNCHANGED <<tnode, bvars, mvars, cvars, kvars>>

TextNext == HandleText

TextSpec == TextInit /\ [][TextNext]_vars

TextLeaf(t) == [class |-> classOf(NS, "Text"), text |-> t]

\* C3 (mark nesting): a text node with bold and italic and without code, in
\* any order and multiplicity of marks, gives Emph whose only child is Strong
\* whose only child is the Text leaf of the raw text.
C3_MarkNesting ==
    (tpc = "done" /\ someMark(tnode, "bold") /\ someMark(tnode, "italic")
                  /\ ~someMark(tnode, "code")) =>
        tout = [class |-> classOf(NS, "Emph"),
                nodes |-> << [class |-> classOf(NS, "Strong"),
                              nodes |-> << TextLeaf(tnode.text) >>] >>]

\* bold given twice, before and after italic
C3_Witness ==
    /\ tpc = "done"
    /\ tnode.marks = << [type |-> "bold"], [type |-> "italic"], [type |-> "bold"] >>
    /\ tout.class = classOf(NS, "Emph")
    /\ tout.nodes[1].class = classOf(NS, "Strong")

\* C4 (code precedence): a text node with the code mark, with or without
\* bold and italic, gives a Code leaf of the raw text with no children list.
C4_CodePrecedence ==
    (tpc = "done" /\ someMark(tnode, "code")) =>
        /\ tout = [class |-> classOf(NS, "Code"), text |-> tnode.text]
        /\ "nodes" \notin DOMAIN tout

\* code after bold and italic
C4_Witness ==
    /\ tpc = "done"
    /\ tnode.marks = << [type |-> "bold"], [type |-> "italic"], [type |-> "code"] >>
    /\ tout.class = classOf(NS, "Code")

\* C8 (single mark): without code, bold without italic gives Strong around
\* the Text leaf, italic without bold gives Emph around the Text leaf, and
\* neither gives the bare Text leaf, which has no children list.
C8_SingleMark ==
    (tpc = "done" /\ ~someMark(tnode, "code")) =>
        /\ (someMark(tnode, "bold") /\ ~someMark(tnode, "italic")) =>
              tout = [class |-> classOf(NS, "Strong"),
                      nodes |-> << TextLeaf(tnode.text) >>]
        /\ (someMark(tnode, "italic") /\ ~someMark(tnode, "bold")) =>
              tout = [class |-> classOf(NS, "Emph"),
                      nodes |-> << TextLeaf(tnode.text) >>]
        /\ (~someMark(tnode, "italic") /\ ~someMark(tnode, "bold")) =>
              tout = TextLeaf(tnode.text) /\ "nodes" \notin DOMAIN tout

\* the text 'hi' with bold next to an unrecognized mark
C8_Witness ==
    /\ tpc = "done"
    /\ tnode.text = "hi"
    /\ tnode.marks = << [type |-> "underline"], [type |-> "bold"] >>
    /\ tout.class = classOf(NS, "Strong")
    /\ tout.nodes = << TextLeaf("hi") >>

\* ------------------------------------------------------------- _recursive
HeadingTypes == <<"heading_one", "heading_two", "heading_three",
                  "heading_four", "heading_five", "heading_six">>

isHeadingType(type) == \E k \in 1..Len(HeadingTypes) : HeadingTypes[k] = type

\* a heading table that is one level off from heading_two on
headingCases_offByOne(node) ==
    LET k == CHOOSE i \in 1..Len(HeadingTypes) : HeadingTypes[i] = node.type
    IN  [class |-> classOf(NS, "Heading"),
         level |-> <<"1", "3", "4", "5", "6", "6">>[k],
         nodes |-> <<>>]

\* case 'heading_one' .. case 'heading_six'
headingCases(node) ==
    CASE node.type = "heading_one" ->
            [class |-> classOf(NS, "Heading"), level |-> "1", nodes |-> <<>>]
      [] node.type = "heading_two" ->
            [class |-> classOf(NS, "Heading"), level |-> "2", nodes |-> <<>>]
      [] node.type = "heading_three" ->
            [class |-> classOf(NS, "Heading"), level |-> "3", nodes |-> <<>>]
      [] node.type = "heading_four" ->
            [class |-> classOf(NS, "Heading"), level |-> "4", nodes |-> <<>>]
      [] node.type = "heading_five" ->
            [class |-> classOf(NS, "Heading"), level |-> "5", nodes |-> <<>>]
      [] node.type = "heading_six" ->
            [class |-> classOf(NS, "Heading"), level |-> "6", nodes |-> <<>>]

\* switch (node.type): the produced node, or Null when no case matches
switchType(node) ==
    CASE node.type = "clause" ->
            [class |-> classOf(NS_CICERO, "Clause"), clauseid |-> node.data.clauseid,
             src |-> node.data.src, clauseText |-> node.data.clauseText,
             nodes |-> <<>>]
      [] node.type = "variable" ->
            [class |-> classOf(NS_CICERO, "Variable"), id |-> node.data.id,
             value |-> node.data.value, nodes |-> <<>>]
      [] node.type = "computed" ->
            [class |-> classOf(NS_CICERO, "ComputedVariable"),
             value |-> node.data.value, nodes |-> <<>>]
      [] node.type = "paragraph" ->
            [class |-> classOf(NS, "Paragraph"), nodes |-> <<>>]
      [] node.type = "quote" ->
            [class |-> classOf(NS, "BlockQuote")]
      [] node.type = "horizontal_rule" ->
            [class |-> classOf(NS, "ThematicBreak")]
      [] isHeadingType(node.type) -> headingCases(node)
      [] node.type = "block_quote" ->
            [class |-> classOf(NS, "BlockQuote"), nodes |-> <<>>]
      [] node.type = "code_block" ->
            [class |-> classOf(NS, "CodeBlock"), text |-> node.text]
      [] node.type = "html_block" ->
            [class |-> classOf(NS, "HtmlBlock"), text |-> node.text]
      [] node.type = "html_inline" ->
            [class |-> classOf(NS, "HtmlInline")]
      [] node.type \in {"ol_list", "ul_list"} ->
            [class |-> classOf(NS, "List"),
             type |-> IF node.type = "ol_list" THEN "ordered" ELSE "bullet",
             delimiter |-> node.data.delimiter, start |-> node.data.start,
             tight |-> node.data.tight, nodes |-> <<>>]
      [] node.type = "list_item" ->
            [class |-> classOf(NS, "Item"),
             nodes |-> << [class |-> classOf(NS, "Paragraph"), nodes |-> <<>>] >>]
      [] node.type = "link" ->
            [class |-> classOf(NS, "Link"), destination |-> node.data.href,
             title |-> "", nodes |-> <<>>]
      [] OTHER -> Null

\* switch (node.object)
switchObject(node) ==
    IF node.object = "text" THEN handleText(node) ELSE switchType(node)

Failed(node) == [error |-> "Failed to process node", node |-> node]
NoChildren(parent) == [error |-> "Parent node doesn't have children", parent |-> parent]
isError(x) == "error" \in DOMAIN x

\* a property that holds an array is truthy, also when the array is empty
hasNodes(x) == "nodes" \in DOMAIN x

RECURSIVE _recursive(_, _)

\* children always go into the produced node itself
processChildren_intoResult(node, result) ==
    IF hasNodes(node) /\ hasNodes(result)
    THEN _recursive(result, node.nodes)
    ELSE result

\* a recursion that does not ask whether the produced node has children
processChildren_noGuard(node, result) ==
    IF hasNodes(node)
    THEN IF hasNodes(result) /\ result.nodes # <<>>
         THEN LET first == _recursive(result.nodes[1], node.nodes)
              IN  IF isError(first) THEN first
                  ELSE [result EXCEPT !.nodes[1] = first]
         ELSE _recursive(result, node.nodes)
    ELSE result

\* if(node.nodes && result.nodes)
\*     _recursive(result.nodes[0] ? result.nodes[0] : result, node.nodes)
\* gives the produced node after the call, or the error the call threw
processChildren(node, result) ==
    IF hasNodes(node) /\ hasNodes(result)
    THEN IF result.nodes # <<>>
         THEN LET first == _recursive(result.nodes[1], node.nodes)
              IN  IF isError(first) THEN first
                  ELSE [result EXCEPT !.nodes[1] = first]
         ELSE _recursive(result, node.nodes)
    ELSE result

RECURSIVE forEachFrom(_, _, _)

\* a loop that puts each result in front of the parent's children
forEachFrom_unshift(parent, nodes, index) ==
    IF index > Len(nodes) THEN parent
    ELSE LET node == nodes[index]
             result == switchObject(node)
         IN  IF result = Null THEN Failed(node)
             ELSE LET filled == processChildren(node, result)
                  IN  IF isError(filled) THEN filled
                      ELSE IF ~hasNodes(parent) THEN NoChildren(parent)
                      ELSE forEachFrom(
                              [parent EXCEPT !.nodes = <<filled>> \o @],
                              nodes, index + 1)

\* nodes.forEach((node, index) => ...), from the index-th node on
forEachFrom(parent, nodes, index) ==
    IF index > Len(nodes) THEN parent
    ELSE LET node == nodes[index]
             result == switchObject(node)
         IN  IF result = Null THEN Failed(node)
             ELSE LET filled == processChildren(node, result)
                  IN  IF isError(filled) THEN filled
                      ELSE IF ~hasNodes(parent) THEN NoChildren(parent)
                      ELSE forEachFrom(
                              [parent EXCEPT !.nodes = Append(@, filled)],
                              nodes, index + 1)

_recursive(parent, nodes) == forEachFrom(parent, nodes, 1)

DocumentRoot ==
    [class |-> classOf(NS, "Document"), xmlns |-> "http://commonmark.org/xml/1.0",
     nodes |-> <<>>]

\* JSON.parse(JSON.stringify(document)) copies a plain JSON value as it is;
\* a throw is the error value
slateToCiceroMarkDom(document) == _recursive(DocumentRoot, document.nodes)

\* -------------------------------------------------------- the mapper's inputs
HandledTypes ==
    {"clause", "variable", "computed", "paragraph", "quote", "horizontal_rule",
     "heading_one", "heading_two", "heading_three", "heading_four",
     "heading_five", "heading_six", "block_quote", "code_block", "html_block",
     "html_inline", "ol_list", "ul_list", "list_item", "link"}

\* "image" stands for every type the switch has no case for
ElementTypes == HandledTypes \cup {"image"}

\* the data bag of a Slate element: the fields the switch reads for its type
DataOf(type) ==
    CASE type = "clause" -> [clauseid |-> "c1", src |-> "ap://c", clauseText |-> "ct"]
      [] type = "variable" -> [id |-> "v1", value |-> "val"]
      [] type = "computed" -> [value |-> "val"]
      [] type \in {"ol_list", "ul_list"} -> [delimiter |-> "period", start |-> "1", tight |-> "true"]
      [] type = "link" -> [href |-> "http://a"]
      [] OTHER -> <<>>

ElementBare(type) ==
    IF type \in {"code_block", "html_block"}
    THEN [object |-> "block", type |-> type, data |-> DataOf(type), text |-> "raw"]
    ELSE [object |-> "block", type |-> type, data |-> DataOf(type)]

Element(type, kids) == [nodes |-> kids] @@ ElementBare(type)

TextNode(t, ms) == [object |-> "text", text |-> t, marks |-> ms]

TreeMarks ==
    { <<>>, << [type |-> "bold"] >>, << [type |-> "italic"], [type |-> "bold"] >>,
      << [type |-> "code"] >> }

Leaves ==
    {TextNode("hi", ms) : ms \in TreeMarks}
    \cup {Element("image", <<>>), Element("horizontal_rule", <<>>)}

ChildLists == UNION {[1..n -> Leaves] : n \in 0..MaxChildren}

\* one element, or one text object that carries child nodes, over leaves
Level1 ==
    {Element(t, kids) : t \in ElementTypes, kids \in ChildLists}
    \cup {ElementBare(t) : t \in ElementTypes}
    \cup {[nodes |-> kids] @@ TextNode("hi", ms) :
             ms \in TreeMarks, kids \in {k \in ChildLists : Len(k) <= 1}}

WrapTypes == {"list_item", "ul_list", "quote", "paragraph"}

Level2 == {Element(t, <<n>>) : t \in WrapTypes, n \in Level1}

TopLists == ChildLists \cup {<<n>> : n \in Level1 \cup Level2}

\* the parents the nested call of _recursive is given: the first child of a
\* produced node if it has one, else the produced node
NestedParents ==
    {IF r.nodes # <<>> THEN r.nodes[1] ELSE r :
        r \in {x \in {switchObject(n) : n \in Level1} : x # Null /\ hasNodes(x)}}

MapperInit ==
    /\ BIdle
    /\ TIdle
    /\ CIdle
    /\ KIdle
    /\ \/ mparent = DocumentRoot /\ mnodes \in TopLists
       \/ mparent \in NestedParents /\ mnodes \in ChildLists
    /\ mout = <<>>
    /\ mpc = "start"

\* slateToCiceroMarkDom(document)
Convert ==
    /\ mpc = "start"
    /\ mparent = DocumentRoot
    /\ mout' = slateToCiceroMarkDom([nodes |-> mnodes])
    /\ mpc' = "done"
    /\ UNCHANGED <<mparent, mnodes, bvars, tvars, cvars, kvars>>

\* the nested call _recursive(result.nodes[0] ? result.nodes[0] : result, ...)
Recurse ==
    /\ mpc = "start"
    /\ mparent # DocumentRoot
    /\ mout' = _recursive(mparent, mnodes)
    /\ mpc' = "done"
    /\ UNCHANGED <<mparent, mnodes, bvars, tvars, cvars, kvars>>

MapperNext == Convert \/ Recurse

MapperSpec == MapperInit /\ [][MapperNext]_vars

\* ------------------------------------------------------- the mapper's claims
\* a node maps when converting it alone throws nothing; its mapping is the
\* node that conversion appends
Mappable(n) == ~isError(_recursive(DocumentRoot, <<n>>))
Mapped(n) == _recursive(DocumentRoot, <<n>>).nodes[1]
MappedList(ns) == [i \in 1..Len(ns) |-> Mapped(ns[i])]
AllMappable(ns) == \A i \in 1..Len(ns) : Mappable(ns[i])

isElementOf(n, type) == n.object # "text" /\ n.type = type
KidsOf(n) == IF hasNodes(n) THEN n.nodes ELSE <<>>
Converted == mpc = "done" /\ mparent = DocumentRoot

\* C5 (list item redirection): a list_item with N mappable children, N >= 0,
\* gives an Item with exactly one child, a Paragraph, whose children are the
\* N mapped children in order.
C5_ListItemRedirection ==
    (Converted /\ AllMappable(mnodes)) =>
        \A i \in 1..Len(mnodes) :
            isElementOf(mnodes[i], "list_item") =>
                /\ Len(mout.nodes[i].nodes) = 1
                /\ mout.nodes[i] =
                     [class |-> classOf(NS, "Item"),
                      nodes |-> << [class |-> classOf(NS, "Paragraph"),
                                    nodes |-> MappedList(KidsOf(mnodes[i]))] >>]

\* a list_item with two different children
C5_Witness ==
    /\ Converted
    /\ Len(mnodes) = 1
    /\ isElementOf(mnodes[1], "list_item")
    /\ hasNodes(mnodes[1])
    /\ Len(mnodes[1].nodes) = 2
    /\ mnodes[1].nodes[1] # mnodes[1].nodes[2]
    /\ ~isError(mout)
    /\ Len(mout.nodes[1].nodes) = 1
    /\ Len(mout.nodes[1].nodes[1].nodes) = 2

DigitString == <<"1", "2", "3", "4", "5", "6">>

\* C6 (heading levels): the k-th heading type, heading_one .. heading_six,
\* gives a Heading whose level is the string of k.
C6_HeadingLevel ==
    (Converted /\ ~isError(mout)) =>
        \A i \in 1..Len(mnodes), k \in 1..6 :
            isElementOf(mnodes[i], HeadingTypes[k]) =>
                /\ mout.nodes[i].class = classOf(NS, "Heading")
                /\ mout.nodes[i].level = DigitString[k]

C6_Witness ==
    /\ Converted
    /\ ~isError(mout)
    /\ isElementOf(mnodes[1], "heading_six")
    /\ mout.nodes[1].level = "6"

RECURSIVE ContainsUnhandled(_)
\* some node of the list, at any depth, is no text object and has no case
ContainsUnhandled(ns) ==
    \E i \in 1..Len(ns) :
        \/ ns[i].object # "text" /\ ns[i].type \notin HandledTypes
        \/ hasNodes(ns[i]) /\ ContainsUnhandled(ns[i].nodes)

\* C7 (unhandled node is fatal): a document that holds, at any depth, a node
\* that is neither a text object nor an element of a handled type makes the
\* mapper throw; it returns no tree.
C7_UnhandledIsFatal ==
    (Converted /\ ContainsUnhandled(mnodes)) => isError(mout)

\* C9 (order-preserving append): a call on K mappable nodes against a parent
\* that has a children list returns that parent with exactly the K mapped
\* nodes appended in order: the children it had keep their places and its
\* other fields their values.
C9_AppendInOrder ==
    (mpc = "done" /\ hasNodes(mparent) /\ AllMappable(mnodes)) =>
        /\ ~isError(mout)
        /\ mout = [mparent EXCEPT !.nodes = @ \o MappedList(mnodes)]

\* two different nodes appended to a parent that already had a child
C9_Witness ==
    /\ mpc = "done"
    /\ hasNodes(mparent)
    /\ mparent.nodes # <<>>
    /\ Len(mnodes) = 2
    /\ mnodes[1] # mnodes[2]
    /\ AllMappable(mnodes)
    /\ Len(mout.nodes) = Len(mparent.nodes) + 2
    /\ mout.nodes[1] = mparent.nodes[1]

\* C10 (quote children): a quote element with N mappable children gives a
\* BlockQuote whose children list holds the N mapped children in order.
C10_QuoteChildrenMapped ==
    (Converted /\ AllMappable(mnodes)) =>
        \A i \in 1..Len(mnodes) :
            (isElementOf(mnodes[i], "quote") /\ hasNodes(mnodes[i])) =>
                mout.nodes[i] =
                    [class |-> classOf(NS, "BlockQuote"),
                     nodes |-> MappedList(mnodes[i].nodes)]

\* ================================================================ toClass
\* names over a letter, the last letter, a digit and the underscore
NameChars == {"a", "z", "7", "_"}

TagNames == UNION {[1..n -> NameChars] : n \in 0..MaxNameLen}

ClassInit ==
    /\ BIdle
    /\ TIdle
    /\ MIdle
    /\ KIdle
    /\ cname \in TagNames
    /\ cout = <<>>
    /\ cpc = "start"

ToClass ==
    /\ cpc = "start"
    /\ cout' = toClass(cname)
    /\ cpc' = "done"
    /\ UNCHANGED <<cname, bvars, tvars, mvars, kvars>>

ClassNext == ToClass

ClassSpec == ClassInit /\ [][ClassNext]_vars

\* the name with every underscore removed, each character that followed an
\* underscore upper-cased and the first character upper-cased
Camelised(name) ==
    LET kept == SelectSeq([i \in 1..Len(name) |-> i], LAMBDA i : name[i] # "_")
    IN  [j \in 1..Len(kept) |->
            IF kept[j] = 1 \/ name[kept[j] - 1] = "_"
            THEN toUpperCase(name[kept[j]])
            ELSE name[kept[j]]]

\* every underscore is directly followed by a lower-case letter
UnderscoresLeadLetters(name) ==
    \A i \in 1..Len(name) :
        name[i] = "_" => (i < Len(name) /\ isLowerLetter(name[i + 1]))

\* C11 as stated (tag classifier): for every name over lower-case letters,
\* digits and underscores the result is the prefix followed by the camelised
\* name, and it holds no underscore.
C11_ClassifierAnyName ==
    cpc = "done" =>
        /\ cout = COMMON_NS_PREFIX \o Camelised(cname)
        /\ \A i \in 1..Len(cout) : cout[i] # "_"

\* C11 as amended: the same for every name in which each underscore is
\* directly followed by a lower-case letter.
C11_Classifier ==
    (cpc = "done" /\ UnderscoresLeadLetters(cname)) =>
        /\ cout = COMMON_NS_PREFIX \o Camelised(cname)
        /\ \A i \in 1..Len(cout) : cout[i] # "_"

C11_Witness ==
    /\ cpc = "done"
    /\ cname = <<"a", "_", "z", "7">>
    /\ cout = COMMON_NS_PREFIX \o <<"A", "Z", "7">>

\* ================================================= the builder, per event
\* the kinds the claims call leaf-text-bearing, and those that may get a tag
TextBearingKinds ==
    {ClassText, ClassCodeBlock, ClassHtmlInline, ClassHtmlBlock, ClassCode}
TagKinds == {ClassHtmlInline, ClassHtmlBlock, ClassCodeBlock}

TopIsTextBearing == stack # <<>> /\ heap[peek(stack)].class \in TextBearingKinds

\* the content of a text event as the handler takes it
Delivered(t) == IF options.defined /\ options.trimText THEN trim(t) ELSE t

\* C14 as stated (text assignment): after every text event delivered while
\* the top frame is of a text-bearing kind, for every content, the top
\* frame's text is the content (the trimmed content when trimming is on).
C14_TextAssignedAnyContent ==
    [][\A t \in Texts, item \in DomItems :
          (SaxTextEvent(t, item) /\ TopIsTextBearing) =>
              /\ "text" \in DOMAIN heap'[peek(stack)]
              /\ heap'[peek(stack)].text = Delivered(t)]_vars

\* C14 as amended: the same for every content that is not empty once it is
\* trimmed (when trimming is on); an event whose content is then empty
\* changes no node.
C14_TextAssigned ==
    [][\A t \in Texts, item \in DomItems :
          (SaxTextEvent(t, item) /\ TopIsTextBearing) =>
              IF Delivered(t) # <<>>
              THEN /\ "text" \in DOMAIN heap'[peek(stack)]
                   /\ heap'[peek(stack)].text = Delivered(t)
              ELSE heap' = heap]_vars

\* a code block that holds the trimmed content of the text "a "
C14_Witness ==
    /\ options.defined
    /\ options.trimText
    /\ \E r \in 1..Len(heap) :
          /\ heap[r].class = ClassCodeBlock
          /\ "text" \in DOMAIN heap[r]
          /\ heap[r].text = <<"a">>

\* C15 (frame of a text event): a text event leaves the stack as it is and
\* changes no node but the top frame; with an empty stack, or a top frame
\* that is not of a text-bearing kind, it changes nothing of the builder.
C15_TextFrame ==
    [][\A t \in Texts, item \in DomItems :
          SaxTextEvent(t, item) =>
              /\ stack' = stack
              /\ Len(heap') = Len(heap)
              /\ \A r \in 1..Len(heap) : r # peek(stack) => heap'[r] = heap[r]
              /\ ~TopIsTextBearing => heap' = heap]_vars

\* text events were delivered, the top frame is an open paragraph inside the
\* document, and no node took a text
C15_Witness ==
    /\ pc = "streaming"
    /\ nevents > Len(heap)
    /\ Len(stack) = 2
    /\ heap[peek(stack)].class = toClass(TagParagraph)
    /\ \A r \in 1..Len(heap) : "text" \notin DOMAIN heap[r]

\* C16 (tag metadata): a text event attaches a tag only when the tagInfo
\* option is set, to the top frame only, only if that frame is HtmlInline,
\* HtmlBlock or CodeBlock, the inspected field (the info field for a code
\* block) is present and the inspector found an element; when the inspector
\* finds none, no node's tag changes and the stack stays as it is.
C16_TagGating ==
    [][\A t \in Texts, item \in DomItems :
          SaxTextEvent(t, item) =>
              /\ \A r \in 1..Len(heap) :
                    ("tag" \in DOMAIN heap'[r] /\ "tag" \notin DOMAIN heap[r]) =>
                        /\ options.defined
                        /\ options.tagInfo
                        /\ r = peek(stack)
                        /\ heap[r].class \in TagKinds
                        /\ heap[r].class = ClassCodeBlock => "info" \in DOMAIN heap[r]
                        /\ item.found
              /\ ~item.found =>
                    /\ stack' = stack
                    /\ \A r \in 1..Len(heap) :
                          /\ "tag" \in DOMAIN heap'[r] <=> "tag" \in DOMAIN heap[r]
                          /\ "tag" \in DOMAIN heap[r] => heap'[r].tag = heap[r].tag]_vars

\* a code block with the info <b> that got its tag, next to an inline HTML
\* node or not
C16_Witness ==
    /\ options.defined
    /\ options.tagInfo
    /\ \E r \in 1..Len(heap) :
          /\ heap[r].class = ClassCodeBlock
          /\ "tag" \in DOMAIN heap[r]
          /\ heap[r].tag.tagName = <<"b">>
          /\ ~heap[r].tag.closed

\* C17 (attribute hoisting): after an open event the new node is the top of
\* the stack, its class is toClass of the tag name, and every attribute of
\* the event is a field of the node with the same value.
C17_AttributeHoisting ==
    [][\A name \in ChildTags \cup {TagDocument} :
          \A attributes \in AttributesOf(name) :
              SaxOpenEvent(name, attributes) =>
                  /\ Len(heap') = Len(heap) + 1
                  /\ stack' = Append(stack, Len(heap'))
                  /\ heap'[Len(heap')].class = toClass(name)
                  /\ \A key \in DOMAIN attributes :
                        /\ key \in DOMAIN heap'[Len(heap')]
                        /\ heap'[Len(heap')][key] = attributes[key]]_vars

\* a link just opened, with its two attributes, with source locations on
C17_Witness ==
    /\ options.defined
    /\ options.enableSourceLocation
    /\ stack # <<>>
    /\ peek(stack) = Len(heap)
    /\ heap[peek(stack)].class = COMMON_NS_PREFIX \o <<"L","i","n","k">>
    /\ heap[peek(stack)].destination = "http://a"
    /\ heap[peek(stack)].title = ""
    /\ "position" \in DOMAIN heap[peek(stack)]

\* every node of the tree under reference r
RECURSIVE NodesUnder(_)
NodesUnder(r) ==
    {r} \cup (IF "nodes" \in DOMAIN heap[r]
              THEN UNION {NodesUnder(heap[r].nodes[i]) : i \in 1..Len(heap[r].nodes)}
              ELSE {})

NonLeafKinds ==
    {ClassDocument, toClass(TagParagraph), toClass(TagBlockQuote), toClass(TagLink)}

\* C18 (children presence by variant): in the tree returned, every node of a
\* non-leaf variant has a children list, also when nothing was opened inside
\* it, and every node of a leaf variant has none.
C18_ChildrenByVariant ==
    pc = "done" =>
        \A r \in NodesUnder(json) :
            /\ heap[r].class \in NonLeafKinds => "nodes" \in DOMAIN heap[r]
            /\ heap[r].class \in TextBearingKinds => "nodes" \notin DOMAIN heap[r]

\* ================================================ the mapper's parents
RECURSIVE TextObjectsBare(_)
\* no text object of the list, at any depth, has a nodes field
TextObjectsBare(ns) ==
    \A i \in 1..Len(ns) :
        IF ns[i].object = "text" THEN ~hasNodes(ns[i])
        ELSE hasNodes(ns[i]) => TextObjectsBare(ns[i].nodes)

RECURSIVE TextObjectsChildless(_)
\* no text object of the list, at any depth, has a node in a nodes field
TextObjectsChildless(ns) ==
    \A i \in 1..Len(ns) :
        IF ns[i].object = "text" THEN KidsOf(ns[i]) = <<>>
        ELSE hasNodes(ns[i]) => TextObjectsChildless(ns[i].nodes)

RECURSIVE PassedParents(_)
\* the produced nodes that take the children of the nodes of the list, at any
\* depth: for a node that has a nodes field and produces a node with a
\* children list, the first child of the produced node if there is one, else
\* the produced node
PassedParents(ns) ==
    UNION {LET n == ns[i]
               r == switchObject(n)
           IN  IF r = Null \/ ~hasNodes(n) THEN {}
               ELSE (IF ~hasNodes(r) THEN {}
                     ELSE {IF r.nodes # <<>> THEN r.nodes[1] ELSE r})
                    \cup PassedParents(n.nodes)
           : i \in 1..Len(ns)}

\* C19 (parent always has a children list): for a document whose text
\* objects have no nodes field, every produced node that is given children
\* has a children list, and the only error the conversion can end in is the
\* one of an unhandled node; the error of a parent without children is not
\* raised either when text objects have an empty nodes field.
C19_ParentHasChildren ==
    /\ (Converted /\ TextObjectsBare(mnodes)) =>
          /\ \A parent \in PassedParents(mnodes) \cup {mparent} : hasNodes(parent)
          /\ isError(mout) => mout.error = "Failed to process node"
    /\ (Converted /\ TextObjectsChildless(mnodes)) =>
          (isError(mout) => mout.error = "Failed to process node")

\* a list item inside a wrapping element, both given children, and a quote
\* with a child next to none: converted without an error
C19_Witness ==
    /\ Converted
    /\ TextObjectsBare(mnodes)
    /\ ~isError(mout)
    /\ Len(mnodes) = 1
    /\ isElementOf(mnodes[1], "ul_list")
    /\ KidsOf(mnodes[1]) # <<>>
    /\ isElementOf(mnodes[1].nodes[1], "list_item")
    /\ Len(KidsOf(mnodes[1].nodes[1])) = 2
    /\ mnodes[1].nodes[1].nodes[1].object = "text"
    /\ Len(mout.nodes[1].nodes[1].nodes[1].nodes) = 2

\* ===================================== calls on one transformer instance
\* The event streams of four markdown texts, as sax delivers them from the
\* XML of commonmark's renderer; the last one ends in a parser error.
OpenOf(name, attributes) == [kind |-> "open", name |-> name, attributes |-> attributes]
TextOf(t, item) == [kind |-> "text", t |-> t, item |-> item]
CloseOf(name) == [kind |-> "close", name |-> name]
ErrorEvent == [kind |-> "error"]

FoundItem == CHOOSE item \in DomItems : item.found
OpenDocument == OpenOf(TagDocument, [xmlns |-> "http://commonmark.org/xml/1.0"])

StreamParagraph ==
    << OpenDocument, OpenOf(TagParagraph, NoAttributes), OpenOf(TagText, NoAttributes),
       TextOf(<<"a", " ">>, NoItem), CloseOf(TagText), CloseOf(TagParagraph),
       CloseOf(TagDocument) >>
StreamCode ==
    << OpenDocument, OpenOf(TagCodeBlock, [info |-> <<"<","b",">">>]),
       TextOf(<<"<","b","/",">">>, FoundItem), CloseOf(TagCodeBlock),
       CloseOf(TagDocument) >>
StreamEmpty == << OpenDocument, CloseOf(TagDocument) >>
StreamBroken == << OpenDocument, OpenOf(TagParagraph, NoAttributes), ErrorEvent >>

Streams == {StreamParagraph, StreamCode, StreamEmpty, StreamBroken}

\* let stack = new Stack()
newStack_leftover == stack
newStack == <<>>

Thrown == [error |-> TRUE]

\* the tree under reference r of heap h, as a value
RECURSIVE ToTree(_, _)
ToTree(h, r) ==
    IF "nodes" \in DOMAIN h[r]
    THEN [nodes |-> [i \in 1..Len(h[r].nodes) |-> ToTree(h, h[r].nodes[i])]] @@ h[r]
    ELSE h[r]

\* new CommonMarkTransformer(options): the instance holds the options only
CallsInit ==
    /\ options \in OptionSets
    /\ stack = <<>>
    /\ heap = <<>>
    /\ tags = <<>>
    /\ enclosing = <<>>
    /\ nevents = 0
    /\ json = NoRef
    /\ pc = "between"
    /\ TIdle
    /\ MIdle
    /\ CIdle
    /\ script \in [1..MaxCalls -> Streams]
    /\ callno = 0
    /\ cursor = 0
    /\ returned = <<>>

thisEvent == script[callno][cursor + 1]
inCall == pc = "calling" /\ cursor < Len(script[callno])

\* fromMarkdown(markdown, format): a stack and a parser of its own
StartCall ==
    /\ pc = "between"
    /\ callno < Len(script)
    /\ callno' = callno + 1
    /\ cursor' = 0
    /\ stack' = newStack
    /\ pc' = "calling"
    /\ UNCHANGED <<options, heap, tags, enclosing, nevents, json, script, returned,
                   tvars, mvars, cvars>>

ReplayOpen ==
    /\ inCall
    /\ thisEvent.kind = "open"
    /\ onopentag(thisEvent.name, thisEvent.attributes, cursor)
    /\ cursor' = cursor + 1
    /\ UNCHANGED <<options, tags, enclosing, nevents, json, pc, script, callno,
                   returned, tvars, mvars, cvars>>

ReplayText ==
    /\ inCall
    /\ thisEvent.kind = "text"
    /\ ontext(thisEvent.t, thisEvent.item)
    /\ cursor' = cursor + 1
    /\ UNCHANGED <<options, tags, enclosing, nevents, json, pc, script, callno,
                   returned, tvars, mvars, cvars>>

ReplayClose ==
    /\ inCall
    /\ thisEvent.kind = "close"
    /\ onclosetag(thisEvent.name)
    /\ cursor' = cursor + 1
    /\ UNCHANGED <<options, tags, enclosing, nevents, json, pc, script, callno,
                   returned, tvars, mvars, cvars>>

\* parser.onerror = function (e) { throw e; }
ParserError ==
    /\ inCall
    /\ thisEvent.kind = "error"
    /\ returned' = Append(returned, Thrown)
    /\ pc' = "between"
    /\ UNCHANGED <<options, stack, heap, tags, enclosing, nevents, json, script,
                   callno, cursor, tvars, mvars, cvars>>

\* const json = stack.peek(); return json, or the validated object of
\* serializer.fromJSON(json), which throws for a tree the model rejects
Finish ==
    /\ pc = "calling"
    /\ cursor = Len(script[callno])
    /\ json' = peek(stack)
    /\ \E valid \in BOOLEAN :
          returned' = Append(returned,
                             IF valid
                             THEN [ref |-> peek(stack), tree |-> ToTree(heap, peek(stack))]
                             ELSE Thrown)
    /\ pc' = "between"
    /\ UNCHANGED <<options, stack, heap, tags, enclosing, nevents, script, callno,
                   cursor, tvars, mvars, cvars>>

CallsNext ==
    StartCall \/ ReplayOpen \/ ReplayText \/ ReplayClose \/ ParserError \/ Finish

CallsSpec == CallsInit /\ [][CallsNext]_vars

Completed(k) == k \in 1..Len(returned) /\ returned[k] # Thrown

\* C12 (call independence): every call starts with an empty stack; a tree
\* that was returned is not changed by later calls and shares no node with
\* the tree of another call; and a call returns, for the stream of the first
\* call on the instance (or of any other call), the tree that call returned,
\* whatever calls came between, calls that threw included.
C12_CallIndependence ==
    /\ (pc = "calling" /\ cursor = 0) => stack = <<>>
    /\ \A k \in 1..Len(returned) :
          Completed(k) => ToTree(heap, returned[k].ref) = returned[k].tree
    /\ \A k \in 1..Len(returned), m \in 1..Len(returned) :
          (Completed(k) /\ Completed(m) /\ k # m) =>
              /\ NodesUnder(returned[k].ref) \cap NodesUnder(returned[m].ref) = {}
              /\ script[k] = script[m] => returned[k].tree = returned[m].tree

\* the third call returned for the first call's stream its tree, after a call
\* that threw with two frames on its stack
C12_Witness ==
    /\ Len(returned) = 3
    /\ script[1] = StreamCode
    /\ script[2] = StreamBroken
    /\ script[3] = StreamCode
    /\ Completed(1)
    /\ returned[2] = Thrown
    /\ Completed(3)
    /\ returned[3].ref # returned[1].ref
    /\ returned[3].tree = returned[1].tree
    /\ options.defined
    /\ options.tagInfo
    /\ "tag" \in DOMAIN returned[3].tree.nodes[1]

====
